---- MODULE Spec2Model ----
(***************************************************************************)
(* ClassifyTE parallel feature generation (generate_feature_file_parallel  *)
(* .py) and its benchmark harness (benchmark_parallel.py).                 *)
(*                                                                         *)
(* Text is modelled as sequences of character codes, so that split, strip, *)
(* str(), endswith and the lexicographic order of sorted() are computed    *)
(* as Python computes them.                                                *)
(***************************************************************************)
EXTENDS Integers, Sequences, FiniteSets, TLC

\* ------------------------------------------------------------------ bounds
\* Most record markers in the source file.
MaxMarkers == 3
\* Most environment faults (I/O errors, failing external processes) per run.
MaxFaults == 1
\* Largest elapsed time the harness measures, in units of 2.5 seconds.
MaxTime == 4

\* ------------------------------------------------------- program constants
\* min(32, ...): the ceiling of the splitter's pool.
PoolCeiling == 32
\* Exit status of an uncaught Python exception, and of OptionParser.error.
ExitException == 1
ExitUsage == 2

\* ---------------------------------------------------------------- text
\* ">" + seq_data, content.split(">")
Marker == <<62>>
\* f + '\n'
Newline == <<10>>
\* What str.strip() removes (the members that occur in the inputs).
Whitespace == {32, 10, 9, 13}
\* "seq", ".fasta", "list.txt"
SeqPrefix == <<115, 101, 113>>
FastaExt == <<46, 102, 97, 115, 116, 97>>
ListName == <<108, 105, 115, 116, 46, 116, 120, 116>>

\* str(n) for n >= 0
RECURSIVE Str(_)
Str(n) == IF n < 10 THEN <<48 + n>> ELSE Str(n \div 10) \o <<48 + (n % 10)>>

\* f"seq{seq_id}.fasta"
SeqFileName(seq_id) == SeqPrefix \o Str(seq_id) \o FastaExt

\* s.endswith(suffix)
EndsWith(s, suffix) ==
    /\ Len(s) >= Len(suffix)
    /\ SubSeq(s, Len(s) - Len(suffix) + 1, Len(s)) = suffix

\* s.split(sep) for a one-character sep: always at least one fragment.
RECURSIVE SplitFrom(_, _, _)
SplitFrom(s, sep, cur) ==
    IF s = <<>> THEN <<cur>>
    ELSE IF Head(s) = sep THEN <<cur>> \o SplitFrom(Tail(s), sep, <<>>)
    ELSE SplitFrom(Tail(s), sep, Append(cur, Head(s)))

Split(s, sep) == SplitFrom(s, sep, <<>>)

\* bool(s.strip()): some character is not whitespace.
StripTruthy(s) == \E i \in 1..Len(s) : s[i] \notin Whitespace

\* Python's str <, the order sorted() uses.
RECURSIVE StrLess(_, _)
StrLess(a, b) ==
    IF b = <<>> THEN FALSE
    ELSE IF a = <<>> THEN TRUE
    ELSE IF Head(a) # Head(b) THEN Head(a) < Head(b)
    ELSE StrLess(Tail(a), Tail(b))

\* sorted() with the order reversed.
RECURSIVE SortedDesc(_)
SortedDesc(S) ==
    IF S = {} THEN <<>>
    ELSE LET m == CHOOSE x \in S : \A y \in S \ {x} : StrLess(y, x)
         IN <<m>> \o SortedDesc(S \ {m})

\* sorted(S) for a set of strings.
RECURSIVE SortedAsc(_)
SortedAsc(S) ==
    IF S = {} THEN <<>>
    ELSE LET m == CHOOSE x \in S : \A y \in S \ {x} : StrLess(x, y)
         IN <<m>> \o SortedAsc(S \ {m})

\* The text written by "for f in files: ff.write(f + '\n')".
RECURSIVE JoinLines(_)
JoinLines(names) ==
    IF names = <<>> THEN <<>>
    ELSE Head(names) \o Newline \o JoinLines(Tail(names))

\* open(path, 'rt').read(): universal newlines, "\r\n" and "\r" are read as "\n".
RECURSIVE ReadText(_)
ReadText(bytes) ==
    IF bytes = <<>> THEN <<>>
    ELSE IF Head(bytes) # 13 THEN <<Head(bytes)>> \o ReadText(Tail(bytes))
    ELSE IF Len(bytes) >= 2 /\ bytes[2] = 10
         THEN Newline \o ReadText(Tail(Tail(bytes)))
         ELSE Newline \o ReadText(Tail(bytes))

\* content.split(">")[1:]
SplitSequences(text) == Tail(Split(text, Marker[1]))

\* [(seq_data, i+1, dir) for i, seq_data in enumerate(sequences) if seq_data.strip()]
RECURSIVE ArgsFrom(_, _)
ArgsFrom(sequences, i) ==
    IF i > Len(sequences) THEN <<>>
    ELSE (IF StripTruthy(sequences[i])
          THEN <<[seq_data |-> sequences[i], seq_id |-> i]>>
          ELSE <<>>) \o ArgsFrom(sequences, i + 1)

ArgsList(sequences) == ArgsFrom(sequences, 1)

\* ------------------------------------------------------------ file system
\* A directory's files: a function from names to contents.
EmptyFiles == [n \in {} |-> <<>>]

\* open(name, 'w') ... write(data): creates or replaces the file.
WriteFile(files, name, data) == (name :> data) @@ files

\* os.remove / mv away
RemoveFile(files, name) == [n \in DOMAIN files \ {name} |-> files[n]]

\* for kmer_size in ['2mer', '3mer', '4mer']
KmerSizes == {"2mer", "3mer", "4mer"}

AbsentDir == [exists |-> FALSE, files |-> EmptyFiles]
EmptyDir == [exists |-> TRUE, files |-> EmptyFiles]
AbsentOut == [exists |-> FALSE, subs |-> [k \in {} |-> {}]]

\* The feature directory as shipped: no input_data, no output_data yet.
FreshTree ==
    [exists |-> TRUE, input |-> AbsentDir, output |-> AbsentOut,
     files |-> EmptyFiles, code |-> EmptyFiles]

AbsentTree ==
    [exists |-> FALSE, input |-> AbsentDir, output |-> AbsentOut,
     files |-> EmptyFiles, code |-> EmptyFiles]

\* What an earlier run with more records left behind.
StaleRecord == Marker \o <<122, 10>>
StaleNames == {SeqFileName(1), SeqFileName(MaxMarkers + 1)}
StaleList == JoinLines(SortedAsc(StaleNames))
StaleInput ==
    [exists |-> TRUE,
     files |-> WriteFile([n \in StaleNames |-> StaleRecord], ListName, StaleList)]
StaleOut ==
    [exists |-> TRUE, subs |-> [k \in KmerSizes \cup {"tmp"} |-> {"old"}]]
StaleCsv == <<111, 108, 100, 10>>
StaleTree ==
    [exists |-> TRUE, input |-> StaleInput, output |-> StaleOut,
     files |-> ("list.txt" :> StaleList) @@ ("feature_file.csv" :> StaleCsv),
     code |-> ("list.txt" :> StaleList)]

\* os.makedirs(d, exist_ok=True) with the rmtree forgotten.
CleanInputKeep(dir) == [dir EXCEPT !.exists = TRUE]

\* if os.path.isdir(d): shutil.rmtree(d)
\* os.makedirs(d)
CleanInput(dir) ==
    LET removed == IF dir.exists THEN AbsentDir ELSE dir
    IN [removed EXCEPT !.exists = TRUE]

\* os.makedirs(d, exist_ok=True) with the rmtree forgotten.
CleanOutputKeep(out) == [out EXCEPT !.exists = TRUE]

CleanOutput(out) ==
    LET removed == IF out.exists THEN AbsentOut ELSE out
    IN [removed EXCEPT !.exists = TRUE]

\* os.makedirs(kmer_dir, exist_ok=True) for each k-mer size
MakeKmerDirs(out) ==
    [out EXCEPT !.subs = [k \in DOMAIN out.subs \cup KmerSizes |->
                             IF k \in DOMAIN out.subs THEN out.subs[k] ELSE {}]]

\* setup_directories on one feature directory tree (os.makedirs also creates
\* the missing parents).
SetupTree(tree) ==
    [tree EXCEPT !.exists = TRUE,
                 !.input = CleanInput(@),
                 !.output = MakeKmerDirs(CleanOutput(@))]

\* [f for f in os.listdir(dir) if f.endswith('.fasta')]
FastaFiles(dir) == {f \in DOMAIN dir.files : EndsWith(f, FastaExt)}

\* create_file_list on one tree: list.txt in the input directory and its two copies.
ManifestTree(tree) ==
    LET list == JoinLines(SortedAsc(FastaFiles(tree.input)))
    IN [tree EXCEPT !.input.files = WriteFile(@, ListName, list),
                    !.files = WriteFile(@, "list.txt", list),
                    !.code = WriteFile(@, "list.txt", list)]

\* ------------------------------------------------------------------ state
VARIABLES
    pc,               \* where main() of the pipeline is
    filename,         \* options.filename: "none", or a name "missing"/"present" under data/
    content,          \* the text of data/<filename>
    feature_dir,      \* options.feature_dir
    output_filename,  \* options.output_filename
    max_jobs,         \* options.max_jobs
    fs,               \* the feature directory trees, by name
    dataDir,          \* the feature artifacts in data/
    args_list,        \* parallel_sequence_splitting's args_list
    task,             \* the state of each write_sequence task of the pool
    num_sequences,    \* what parallel_sequence_splitting returned
    num_files,        \* what create_file_list returned
    cwd,              \* the process working directory
    kproc,            \* the runKanalyzer_parallel process
    exit_status,      \* the pipeline's exit status
    faults,           \* environment faults so far
    failures,         \* the stages in which something failed
    collecting,       \* a collection-stage command has been invoked
    fs0,              \* fs and dataDir when the run started
    dataDir0,
    bpc,              \* where main() of the benchmark harness is
    demo_exists,      \* data/demo.fasta exists
    results,          \* the harness's results dict
    artifacts,        \* data/demo_original.csv and data/demo_parallel.csv
    output_exists,    \* original_output_exists, parallel_output_exists
    attempted,        \* the runs whose command the harness has tried to start
    compared,         \* the output comparison was printed
    summary,          \* the performance summary printed
    bench_cpus,       \* os.cpu_count() where the harness runs
    artifacts0,       \* the two output artifacts when the harness started
    stager_runs,      \* how often setup_directories ran (stager specification)
    run_no            \* which run of the pipeline on this workspace this is

pipeVars ==
    <<pc, filename, content, feature_dir, output_filename, max_jobs, fs, dataDir,
      args_list, task, num_sequences, num_files, cwd, kproc, exit_status, faults,
      failures, collecting, fs0, dataDir0>>
benchVars ==
    <<bpc, demo_exists, results, artifacts, output_exists, attempted, compared,
      summary, bench_cpus, artifacts0>>
vars == <<pipeVars, benchVars, stager_runs, run_no>>

\* ----------------------------------------------------------------- inputs
\* The fragments a source file is put together from: nothing, blank, a record.
Fragments == {<<>>, <<32>>, <<97, 10>>}

RECURSIVE JoinMarker(_)
JoinMarker(frags) ==
    IF Len(frags) = 1 THEN frags[1]
    ELSE frags[1] \o Marker \o JoinMarker(Tail(frags))

\* Every text with at most MaxMarkers markers between such fragments.
Contents ==
    UNION {{JoinMarker(fr) : fr \in [1..(n + 1) -> Fragments]} : n \in 0..MaxMarkers}

\* mp.cpu_count() on the machines considered, and the default of --jobs.
CpuCounts == {1, 3, 50}
DefaultJobs(cpu_count) == (cpu_count * 4) \div 5

OutputNames == {"feature_file.csv", "out.csv"}

\* The working directory before a run: as shipped, or as earlier runs left it.
Workspaces ==
    {[fs |-> [features |-> FreshTree, custom |-> AbsentTree], dataDir |-> EmptyFiles],
     [fs |-> [features |-> StaleTree, custom |-> StaleTree],
      dataDir |-> [n \in OutputNames |-> StaleCsv]]}

Runs == {"original", "parallel"}
NoResults == [r \in {} |-> [time |-> 0, success |-> FALSE]]
NoSummary == [kind |-> "none"]

\* The harness is not running.
BenchIdle ==
    /\ bpc = "idle"
    /\ demo_exists = TRUE
    /\ results = NoResults
    /\ artifacts = [a \in Runs |-> "absent"]
    /\ output_exists = [a \in Runs |-> FALSE]
    /\ attempted = {}
    /\ compared = FALSE
    /\ summary = NoSummary
    /\ bench_cpus = 1
    /\ artifacts0 = artifacts

Init ==
    /\ pc = "start"
    /\ filename \in {"none", "missing", "present"}
    /\ content \in (IF filename = "present" THEN Contents ELSE {<<>>})
    /\ feature_dir \in {"features", "custom"}
    /\ output_filename \in OutputNames
    /\ max_jobs \in {DefaultJobs(c) : c \in CpuCounts}
    /\ \E w \in Workspaces : fs = w.fs /\ dataDir = w.dataDir
    /\ args_list = <<>>
    /\ task = <<>>
    /\ num_sequences = 0
    /\ num_files = 0
    /\ cwd = "root"
    /\ kproc = "none"
    /\ exit_status = 0
    /\ faults = 0
    /\ failures = {}
    /\ collecting = FALSE
    /\ fs0 = fs
    /\ dataDir0 = dataDir
    /\ BenchIdle
    /\ stager_runs = 0
    /\ run_no = 1

\* ------------------------------------------------------------ the pipeline
benchIdle == UNCHANGED <<benchVars, stager_runs, run_no>>
inputs == <<filename, content, feature_dir, output_filename, max_jobs, fs0, dataDir0>>

\* The environment may still fail an operation.
MayFault == faults < MaxFaults

\* An exception leaves main(): the interpreter exits with status 1.
Raise(stage) ==
    /\ pc' = "exit"
    /\ exit_status' = ExitException
    /\ failures' = failures \cup {stage}

\* min(32, options.max_jobs), the argument main() passes
MaxWorkers == IF max_jobs < PoolCeiling THEN max_jobs ELSE PoolCeiling

\* parser.parse_args(); if not options.filename: parser.error(...)
ParseArgs ==
    /\ pc = "start"
    /\ IF filename = "none"
       THEN /\ pc' = "exit"
            /\ exit_status' = ExitUsage
            /\ failures' = failures \cup {"config"}
       ELSE /\ pc' = "copytree"
            /\ UNCHANGED <<exit_status, failures>>
    /\ UNCHANGED <<inputs, fs, dataDir, args_list, task, num_sequences, num_files,
                   cwd, kproc, faults, collecting>>
    /\ benchIdle

\* if options.feature_dir != "features": rmtree(feature_dir); copytree(src, feature_dir)
CopyFeatureDir ==
    /\ pc = "copytree"
    /\ pc' = "setup"
    /\ fs' = IF feature_dir # "features"
             THEN [fs EXCEPT ![feature_dir] = fs["features"]]
             ELSE fs
    /\ UNCHANGED <<inputs, dataDir, args_list, task, num_sequences, num_files, cwd,
                   kproc, exit_status, faults, failures, collecting>>
    /\ benchIdle

\* setup_directories(...)
SetupDirectories ==
    /\ pc = "setup"
    /\ pc' = "read"
    /\ fs' = [fs EXCEPT ![feature_dir] = SetupTree(@)]
    /\ UNCHANGED <<inputs, dataDir, args_list, task, num_sequences, num_files, cwd,
                   kproc, exit_status, faults, failures, collecting>>
    /\ benchIdle

\* open(data/<fasta_file>), content.split(">")[1:], args_list
ReadFasta ==
    /\ pc = "read"
    /\ IF filename = "missing"
       THEN /\ Raise("env")
            /\ UNCHANGED args_list
       ELSE /\ pc' = "pool"
            /\ args_list' = ArgsList(SplitSequences(ReadText(content)))
            /\ UNCHANGED <<exit_status, failures>>
    /\ UNCHANGED <<inputs, fs, dataDir, task, num_sequences, num_files, cwd, kproc,
                   faults, collecting>>
    /\ benchIdle

\* ThreadPoolExecutor(max_workers=max_workers): ValueError unless max_workers > 0;
\* executor.map submits every task.
CreatePool ==
    /\ pc = "pool"
    /\ IF MaxWorkers <= 0
       THEN /\ Raise("split")
            /\ UNCHANGED task
       ELSE /\ pc' = "split"
            /\ task' = [t \in 1..Len(args_list) |-> "queued"]
            /\ UNCHANGED <<exit_status, failures>>
    /\ UNCHANGED <<inputs, fs, dataDir, args_list, num_sequences, num_files, cwd,
                   kproc, faults, collecting>>
    /\ benchIdle

\* The tasks run on the pool's threads, whatever main() is doing.
\* Tasks leave the work queue in submission order, one per free worker: task t
\* runs only while fewer than max_workers other tasks are held by workers.
Held(t) == {u \in DOMAIN task \ {t} : task[u] = "open" \/ (u < t /\ task[u] = "queued")}
CanStart(t) == task[t] = "queued" /\ Cardinality(Held(t)) < MaxWorkers

\* Every task named after the number of tasks instead of its own ordinal.
TaskFileShared(t) == SeqFileName(Len(args_list))

TaskFile(t) == SeqFileName(args_list[t].seq_id)

\* write_sequence: open(output_file, 'w')
TaskOpen(t) ==
    /\ CanStart(t)
    /\ task' = [task EXCEPT ![t] = "open"]
    /\ fs' = [fs EXCEPT ![feature_dir].input.files = WriteFile(@, TaskFile(t), <<>>)]
    /\ UNCHANGED <<pc, inputs, dataDir, args_list, num_sequences, num_files, cwd,
                   kproc, exit_status, faults, failures, collecting>>
    /\ benchIdle

\* open raises: the exception stays in the task's future, which nobody reads.
TaskOpenFail(t) ==
    /\ CanStart(t)
    /\ MayFault
    /\ faults' = faults + 1
    /\ task' = [task EXCEPT ![t] = "failed"]
    /\ failures' = failures \cup {"write"}
    /\ UNCHANGED <<pc, inputs, fs, dataDir, args_list, num_sequences, num_files, cwd,
                   kproc, exit_status, collecting>>
    /\ benchIdle

\* The record written without its marker.
TaskWriteNoMarker(t) ==
    /\ task[t] = "open"
    /\ task' = [task EXCEPT ![t] = "done"]
    /\ fs' = [fs EXCEPT ![feature_dir].input.files =
                  WriteFile(@, TaskFile(t), args_list[t].seq_data)]
    /\ UNCHANGED <<pc, inputs, dataDir, args_list, num_sequences, num_files, cwd,
                   kproc, exit_status, faults, failures, collecting>>
    /\ benchIdle

\* of.write(">" + seq_data), close
TaskWrite(t) ==
    /\ task[t] = "open"
    /\ task' = [task EXCEPT ![t] = "done"]
    /\ fs' = [fs EXCEPT ![feature_dir].input.files =
                  WriteFile(@, TaskFile(t), Marker \o args_list[t].seq_data)]
    /\ UNCHANGED <<pc, inputs, dataDir, args_list, num_sequences, num_files, cwd,
                   kproc, exit_status, faults, failures, collecting>>
    /\ benchIdle

\* write raises: the file stays as open() left it, empty.
TaskWriteFail(t) ==
    /\ task[t] = "open"
    /\ MayFault
    /\ faults' = faults + 1
    /\ task' = [task EXCEPT ![t] = "failed"]
    /\ failures' = failures \cup {"write"}
    /\ UNCHANGED <<pc, inputs, fs, dataDir, args_list, num_sequences, num_files, cwd,
                   kproc, exit_status, collecting>>
    /\ benchIdle

\* The pool shut down with wait=False: main() goes on while tasks still run.
PoolExitNoWait ==
    /\ pc = "split"
    /\ pc' = "manifest"
    /\ num_sequences' = Len(args_list)
    /\ UNCHANGED <<inputs, fs, dataDir, args_list, task, num_files, cwd, kproc,
                   exit_status, faults, failures, collecting>>
    /\ benchIdle

\* Leaving the with block: shutdown(wait=True) returns once every task has ended;
\* return len(args_list)
PoolExit ==
    /\ pc = "split"
    /\ \A t \in DOMAIN task : task[t] \in {"done", "failed"}
    /\ pc' = "manifest"
    /\ num_sequences' = Len(args_list)
    /\ UNCHANGED <<inputs, fs, dataDir, args_list, task, num_files, cwd, kproc,
                   exit_status, faults, failures, collecting>>
    /\ benchIdle

\* create_file_list(...); parallel_get_data returns num_files
CreateFileList ==
    /\ pc = "manifest"
    /\ pc' = "generate"
    /\ fs' = [fs EXCEPT ![feature_dir] = ManifestTree(@)]
    /\ num_files' = Cardinality(FastaFiles(fs[feature_dir].input))
    /\ UNCHANGED <<inputs, dataDir, args_list, task, num_sequences, cwd, kproc,
                   exit_status, faults, failures, collecting>>
    /\ benchIdle

\* ------------------------------------------------- the external programs
\* runKanalyzer_parallel: fills the per-size output directories.
KanalyzerOutput(tree) ==
    [tree EXCEPT !.output.subs =
        [k \in DOMAIN @ |-> IF k \in KmerSizes THEN @[k] \cup {"counts"} ELSE @[k]]]

\* java ParallelKmersFeaturesCollector: one row per line of its list.txt.
CollectorRows(tree) ==
    LET list == IF "list.txt" \in DOMAIN tree.files THEN tree.files["list.txt"] ELSE <<>>
    IN SelectSeq(list, LAMBDA c : c = Newline[1])

\* ------------------------------------------- parallel_feature_generation
\* original_dir = os.getcwd(); os.chdir(kanalyzer_destpath)
EnterGeneration ==
    /\ pc = "generate"
    /\ pc' = "chmod"
    /\ cwd' = "code"
    /\ UNCHANGED <<inputs, fs, dataDir, args_list, task, num_sequences, num_files,
                   kproc, exit_status, faults, failures, collecting>>
    /\ benchIdle

\* subprocess.run(['chmod', '775', parallel_script], check=True)
Chmod ==
    /\ pc = "chmod"
    /\ pc' = "spawn"
    /\ UNCHANGED <<inputs, fs, dataDir, args_list, task, num_sequences, num_files,
                   cwd, kproc, exit_status, faults, failures, collecting>>
    /\ benchIdle

\* chmod fails, or the script cannot be spawned: finally os.chdir(original_dir),
\* and the exception leaves parallel_feature_generation.
CountingSetupFail ==
    /\ pc \in {"chmod", "spawn"}
    /\ MayFault
    /\ faults' = faults + 1
    /\ cwd' = "root"
    /\ Raise("count")
    /\ UNCHANGED <<inputs, fs, dataDir, args_list, task, num_sequences, num_files,
                   kproc, collecting>>
    /\ benchIdle

\* subprocess.run([parallel_script], check=True, ...): the process starts
SpawnKanalyzer ==
    /\ pc = "spawn"
    /\ pc' = "wait"
    /\ kproc' = "running"
    /\ UNCHANGED <<inputs, fs, dataDir, args_list, task, num_sequences, num_files,
                   cwd, exit_status, faults, failures, collecting>>
    /\ benchIdle

\* The counting process works and exits with status 0.
KanalyzerExit ==
    /\ kproc = "running"
    /\ kproc' = "exit0"
    /\ fs' = [fs EXCEPT ![feature_dir] = KanalyzerOutput(@)]
    /\ UNCHANGED <<pc, inputs, dataDir, args_list, task, num_sequences, num_files,
                   cwd, exit_status, faults, failures, collecting>>
    /\ benchIdle

\* The counting process exits with a non-zero status.
KanalyzerFail ==
    /\ kproc = "running"
    /\ MayFault
    /\ faults' = faults + 1
    /\ kproc' = "exit1"
    /\ UNCHANGED <<pc, inputs, fs, dataDir, args_list, task, num_sequences, num_files,
                   cwd, exit_status, failures, collecting>>
    /\ benchIdle

\* The script started without waiting for it to exit.
WaitKanalyzerNoWait ==
    /\ pc = "wait"
    /\ pc' = "javac1"
    /\ cwd' = "feature"
    /\ UNCHANGED <<inputs, fs, dataDir, args_list, task, num_sequences, num_files,
                   kproc, exit_status, faults, failures, collecting>>
    /\ benchIdle

\* subprocess.run without check=True: the exit status is ignored.
WaitKanalyzerNoCheck ==
    /\ pc = "wait"
    /\ kproc \in {"exit0", "exit1"}
    /\ pc' = "javac1"
    /\ cwd' = "feature"
    /\ UNCHANGED <<inputs, fs, dataDir, args_list, task, num_sequences, num_files,
                   kproc, exit_status, faults, failures, collecting>>
    /\ benchIdle

\* subprocess.run returns once the process has exited; check=True raises
\* CalledProcessError on a non-zero status; finally os.chdir(original_dir);
\* then os.chdir(feature_destpath).
WaitKanalyzer ==
    /\ pc = "wait"
    /\ kproc \in {"exit0", "exit1"}
    /\ IF kproc = "exit0"
       THEN /\ pc' = "javac1"
            /\ cwd' = "feature"
            /\ UNCHANGED <<exit_status, failures>>
       ELSE /\ cwd' = "root"
            /\ Raise("count")
    /\ UNCHANGED <<inputs, fs, dataDir, args_list, task, num_sequences, num_files,
                   kproc, faults, collecting>>
    /\ benchIdle

\* javac ParallelKmersFeaturesCollector.java; javac BufferReaderAndWriter.java
Javac ==
    /\ pc \in {"javac1", "javac2"}
    /\ pc' = IF pc = "javac1" THEN "javac2" ELSE "java"
    /\ collecting' = TRUE
    /\ UNCHANGED <<inputs, fs, dataDir, args_list, task, num_sequences, num_files,
                   cwd, kproc, exit_status, faults, failures>>
    /\ benchIdle

\* java ParallelKmersFeaturesCollector: writes feature_file.csv where it runs
RunCollector ==
    /\ pc = "java"
    /\ pc' = "mv"
    /\ fs' = [fs EXCEPT ![feature_dir].files =
                  WriteFile(@, "feature_file.csv", CollectorRows(fs[feature_dir]))]
    /\ UNCHANGED <<inputs, dataDir, args_list, task, num_sequences, num_files, cwd,
                   kproc, exit_status, faults, failures, collecting>>
    /\ benchIdle

\* if output_file != "feature_file.csv": mv feature_file.csv output_file
MoveOutput ==
    /\ pc = "mv"
    /\ pc' = "copy"
    /\ fs' = IF output_filename # "feature_file.csv"
             THEN [fs EXCEPT ![feature_dir].files =
                      WriteFile(RemoveFile(@, "feature_file.csv"), output_filename,
                                @["feature_file.csv"])]
             ELSE fs
    /\ UNCHANGED <<inputs, dataDir, args_list, task, num_sequences, num_files, cwd,
                   kproc, exit_status, faults, failures, collecting>>
    /\ benchIdle

\* shutil.copy2(<cwd>/output_file, data/output_file)
CopyOutput ==
    /\ pc = "copy"
    /\ pc' = "remove"
    /\ dataDir' = WriteFile(dataDir, output_filename,
                            fs[feature_dir].files[output_filename])
    /\ UNCHANGED <<inputs, fs, args_list, task, num_sequences, num_files, cwd, kproc,
                   exit_status, faults, failures, collecting>>
    /\ benchIdle

\* The temporary file left where the collector ran.
RemoveTempKeep ==
    /\ pc = "remove"
    /\ pc' = "report"
    /\ cwd' = "root"
    /\ UNCHANGED <<inputs, fs, dataDir, args_list, task, num_sequences, num_files,
                   kproc, exit_status, faults, failures, collecting>>
    /\ benchIdle

\* os.remove(output_file); finally os.chdir(curr_dir1)
RemoveTemp ==
    /\ pc = "remove"
    /\ pc' = "report"
    /\ fs' = [fs EXCEPT ![feature_dir].files = RemoveFile(@, output_filename)]
    /\ cwd' = "root"
    /\ UNCHANGED <<inputs, dataDir, args_list, task, num_sequences, num_files, kproc,
                   exit_status, faults, failures, collecting>>
    /\ benchIdle

\* A collection-stage failure without the finally clause.
CollectionFailNoRestore ==
    /\ \/ pc \in {"javac1", "javac2", "java", "copy", "remove"}
       \/ pc = "mv" /\ output_filename # "feature_file.csv"
    /\ MayFault
    /\ faults' = faults + 1
    /\ collecting' = TRUE
    /\ Raise("collect")
    /\ UNCHANGED <<inputs, fs, dataDir, args_list, task, num_sequences, num_files,
                   kproc, cwd>>
    /\ benchIdle

\* A collection-stage command fails: finally os.chdir(curr_dir1), and the
\* exception leaves parallel_feature_generation.
CollectionFail ==
    /\ \/ pc \in {"javac1", "javac2", "java", "copy", "remove"}
       \/ pc = "mv" /\ output_filename # "feature_file.csv"
    /\ MayFault
    /\ faults' = faults + 1
    /\ collecting' = TRUE
    /\ cwd' = "root"
    /\ Raise("collect")
    /\ UNCHANGED <<inputs, fs, dataDir, args_list, task, num_sequences, num_files,
                   kproc>>
    /\ benchIdle

\* The closing report: total_time/num_sequences raises ZeroDivisionError when
\* parallel_get_data returned 0.
Report ==
    /\ pc = "report"
    /\ IF num_files = 0
       THEN Raise("report")
       ELSE /\ pc' = "exit"
            /\ exit_status' = 0
            /\ UNCHANGED failures
    /\ UNCHANGED <<inputs, fs, dataDir, args_list, task, num_sequences, num_files,
                   cwd, kproc, faults, collecting>>
    /\ benchIdle

Next ==
    \/ ParseArgs
    \/ CopyFeatureDir
    \/ SetupDirectories
    \/ ReadFasta
    \/ CreatePool
    \/ \E t \in DOMAIN task : TaskOpen(t)
    \/ \E t \in DOMAIN task : TaskOpenFail(t)
    \/ \E t \in DOMAIN task : TaskWrite(t)
    \/ \E t \in DOMAIN task : TaskWriteFail(t)
    \/ PoolExit
    \/ CreateFileList
    \/ EnterGeneration
    \/ Chmod
    \/ CountingSetupFail
    \/ SpawnKanalyzer
    \/ KanalyzerExit
    \/ KanalyzerFail
    \/ WaitKanalyzer
    \/ Javac
    \/ RunCollector
    \/ MoveOutput
    \/ CopyOutput
    \/ RemoveTemp
    \/ CollectionFail
    \/ Report

Spec == Init /\ [][Next]_vars

\* ------------------------------ several runs on the same workspace
MaxRuns == 2

\* The first run finds the workspace as the repository ships it; the pool
\* size is one the executor accepts.
InitRuns ==
    /\ Init
    /\ max_jobs > 0
    /\ feature_dir = "features"
    /\ output_filename = "feature_file.csv"
    /\ fs = [features |-> FreshTree, custom |-> AbsentTree]
    /\ dataDir = EmptyFiles

\* The process has exited and the script is started again on the workspace
\* the last run left, with another file name.
Rerun ==
    /\ pc = "exit"
    /\ run_no < MaxRuns
    /\ run_no' = run_no + 1
    /\ pc' = "start"
    /\ filename' \in {"none", "missing", "present"}
    /\ content' \in (IF filename' = "present" THEN Contents ELSE {<<>>})
    /\ args_list' = <<>>
    /\ task' = <<>>
    /\ num_sequences' = 0
    /\ num_files' = 0
    /\ cwd' = "root"
    /\ kproc' = "none"
    /\ exit_status' = 0
    /\ failures' = {}
    /\ collecting' = FALSE
    /\ fs0' = fs
    /\ dataDir0' = dataDir
    /\ UNCHANGED <<feature_dir, output_filename, max_jobs, fs, dataDir, faults>>
    /\ UNCHANGED <<benchVars, stager_runs>>

NextRuns ==
    \/ Next
    \/ Rerun

SpecRuns == InitRuns /\ [][NextRuns]_vars

\* ------------------------------------- the pipeline on files with "\r\n"
\* Source files whose records may end in "\r\n".
RawFragments == Fragments \cup {<<97, 13, 10>>}
RawContents ==
    UNION {{JoinMarker(fr) : fr \in [1..(n + 1) -> RawFragments]} : n \in 0..MaxMarkers}

InitText ==
    /\ pc = "start"
    /\ filename = "present"
    /\ content \in RawContents
    /\ feature_dir = "features"
    /\ output_filename = "feature_file.csv"
    /\ max_jobs \in {DefaultJobs(c) : c \in CpuCounts}
    /\ fs = [features |-> FreshTree, custom |-> AbsentTree]
    /\ dataDir = EmptyFiles
    /\ args_list = <<>>
    /\ task = <<>>
    /\ num_sequences = 0
    /\ num_files = 0
    /\ cwd = "root"
    /\ kproc = "none"
    /\ exit_status = 0
    /\ faults = 0
    /\ failures = {}
    /\ collecting = FALSE
    /\ fs0 = fs
    /\ dataDir0 = dataDir
    /\ BenchIdle
    /\ stager_runs = 0
    /\ run_no = 1

SpecText == InitText /\ [][Next]_vars

\* ------------------------------------------------ the Directory Stager alone
\* How often the stager is run in succession.
MaxStagerRuns == 2

\* No pipeline run is under way.
PipeIdle ==
    /\ pc = "idle"
    /\ filename = "none"
    /\ content = <<>>
    /\ output_filename = "feature_file.csv"
    /\ max_jobs = 0
    /\ dataDir = EmptyFiles
    /\ args_list = <<>>
    /\ task = <<>>
    /\ num_sequences = 0
    /\ num_files = 0
    /\ cwd = "root"
    /\ kproc = "none"
    /\ exit_status = 0
    /\ faults = 0
    /\ failures = {}
    /\ collecting = FALSE
    /\ dataDir0 = dataDir

\* Any state of the input directory, and of the output directory.
InputStates ==
    {AbsentDir} \cup
    {[exists |-> TRUE, files |-> [n \in D |-> StaleRecord]] :
        D \in SUBSET (StaleNames \cup {ListName})}
OutputStates ==
    {AbsentOut} \cup
    UNION {{[exists |-> TRUE, subs |-> f] : f \in [D -> {{}, {"old"}}]} :
              D \in SUBSET (KmerSizes \cup {"tmp"})}
StagerTrees ==
    {AbsentTree} \cup
    {[FreshTree EXCEPT !.input = i, !.output = o] : i \in InputStates, o \in OutputStates}

InitStager ==
    /\ PipeIdle
    /\ BenchIdle
    /\ feature_dir \in {"features", "custom"}
    /\ \E t \in StagerTrees : fs = [features |-> t, custom |-> t]
    /\ fs0 = fs
    /\ stager_runs = 0
    /\ run_no = 1

\* setup_directories(...), called again on what the last call left
StagerRun ==
    /\ pc = "idle"
    /\ bpc = "idle"
    /\ stager_runs < MaxStagerRuns
    /\ stager_runs' = stager_runs + 1
    /\ fs' = [fs EXCEPT ![feature_dir] = SetupTree(@)]
    /\ UNCHANGED <<pc, inputs, dataDir, args_list, task, num_sequences, num_files,
                   cwd, kproc, exit_status, faults, failures, collecting>>
    /\ UNCHANGED <<benchVars, run_no>>

NextStager == StagerRun

SpecStager == InitStager /\ [][NextStager]_vars

\* ------------------------------------------------- the benchmark harness
pipeIdle == UNCHANGED <<pipeVars, stager_runs, run_no>>

InitBench ==
    /\ PipeIdle
    /\ feature_dir = "features"
    /\ fs = [features |-> FreshTree, custom |-> AbsentTree]
    /\ fs0 = fs
    /\ stager_runs = 0
    /\ run_no = 1
    /\ bpc = "start"
    /\ demo_exists \in BOOLEAN
    /\ results = NoResults
    /\ artifacts \in [Runs -> {"absent", "stale"}]
    /\ output_exists = [a \in Runs |-> FALSE]
    /\ attempted = {}
    /\ compared = FALSE
    /\ summary = NoSummary
    /\ bench_cpus \in CpuCounts
    /\ artifacts0 = artifacts

\* if not os.path.exists(demo_file): ... return
BenchStart ==
    /\ bpc = "start"
    /\ bpc' = IF demo_exists THEN "cleanup" ELSE "done"
    /\ UNCHANGED <<bench_cpus, artifacts0, demo_exists, results, artifacts, output_exists, attempted,
                   compared, summary>>
    /\ pipeIdle

\* The harness without its clean-up loop.
BenchCleanupSkip ==
    /\ bpc = "cleanup"
    /\ bpc' = "original"
    /\ UNCHANGED <<bench_cpus, artifacts0, demo_exists, results, artifacts,
                   output_exists, attempted, compared, summary>>
    /\ pipeIdle

\* for file in [both outputs]: if os.path.exists(file): os.remove(file)
BenchCleanup ==
    /\ bpc = "cleanup"
    /\ bpc' = "original"
    /\ artifacts' = [a \in Runs |-> "absent"]
    /\ UNCHANGED <<bench_cpus, artifacts0, demo_exists, results, output_exists, attempted, compared, summary>>
    /\ pipeIdle

\* run_command_with_timing(command, ...) and check_file_exists for one run.
\* Exit status 0 returns (elapsed, True); CalledProcessError returns
\* (elapsed, False); an OSError from spawning the command is not caught and
\* leaves main().  The command may have written its artifact either way.
RunCommand(run, after) ==
    /\ attempted' = attempted \cup {run}
    /\ \E outcome \in {"ok", "nonzero", "oserror"} :
         IF outcome = "oserror"
         THEN /\ bpc' = "crashed"
              /\ UNCHANGED <<results, artifacts, output_exists>>
         ELSE \E elapsed \in 1..MaxTime, wrote \in BOOLEAN :
              /\ bpc' = after
              /\ results' = (run :> [time |-> elapsed, success |-> outcome = "ok"])
                                @@ results
              /\ artifacts' = [artifacts EXCEPT ![run] = IF wrote THEN "fresh" ELSE @]
              /\ output_exists' = [output_exists EXCEPT ![run] = artifacts'[run] # "absent"]
    /\ UNCHANGED <<bench_cpus, artifacts0, demo_exists, compared, summary>>
    /\ pipeIdle

\* Test 1: python3 generate_feature_file.py ...
RunOriginal ==
    /\ bpc = "original"
    /\ RunCommand("original", "parallel")

\* Test 2: python3 generate_feature_file_parallel.py ...
RunParallel ==
    /\ bpc = "parallel"
    /\ RunCommand("parallel", "compare")

\* if original_output_exists and parallel_output_exists: compare ...
CompareOutputs ==
    /\ bpc = "compare"
    /\ bpc' = "summary"
    /\ compared' = (output_exists["original"] /\ output_exists["parallel"])
    /\ UNCHANGED <<bench_cpus, artifacts0, demo_exists, results, artifacts, output_exists, attempted, summary>>
    /\ pipeIdle

\* An exact quotient n/d, d > 0, in lowest terms.
RECURSIVE Gcd(_, _)
Gcd(a, b) == IF b = 0 THEN a ELSE Gcd(b, a % b)
Quotient(n, d) == [num |-> n \div Gcd(n, d), den |-> d \div Gcd(n, d)]

\* The ratio taken the wrong way round.
SpeedupInverted(original_time, parallel_time) == Quotient(parallel_time, original_time)

\* speedup = results['original']['time'] / results['parallel']['time']
Speedup(original_time, parallel_time) == Quotient(original_time, parallel_time)

\* speedup / os.cpu_count()
Efficiency(speedup, cpus) == Quotient(speedup.num, speedup.den * cpus)

\* What the summary prints for the two results.
SummaryOf(res) ==
    IF res["original"].success /\ res["parallel"].success
    THEN LET speedup == Speedup(res["original"].time, res["parallel"].time)
         IN [kind |-> "speedup", speedup |-> speedup,
             efficiency |-> Efficiency(speedup, bench_cpus),
             faster |-> speedup.num > speedup.den]
    ELSE [kind |-> "failed",
          failed |-> [r \in {x \in Runs : ~res[x].success} |-> res[r].time]]

\* The summary of a harness that asks whether either run succeeded.
SummaryEither ==
    /\ bpc = "summary"
    /\ bpc' = "done"
    /\ summary' =
         IF results["original"].success \/ results["parallel"].success
         THEN [kind |-> "speedup",
               speedup |-> Speedup(results["original"].time, results["parallel"].time),
               efficiency |-> Efficiency(Speedup(results["original"].time,
                                                 results["parallel"].time), bench_cpus),
               faster |-> results["original"].time > results["parallel"].time]
         ELSE SummaryOf(results)
    /\ UNCHANGED <<bench_cpus, artifacts0, demo_exists, results, artifacts,
                   output_exists, attempted, compared>>
    /\ pipeIdle

\* The performance summary: speedup and efficiency when both runs succeeded,
\* else the runs that failed, each with its elapsed time.
Summary ==
    /\ bpc = "summary"
    /\ bpc' = "done"
    /\ summary' = SummaryOf(results)
    /\ UNCHANGED <<bench_cpus, artifacts0, demo_exists, results, artifacts, output_exists, attempted, compared>>
    /\ pipeIdle

NextBench ==
    \/ BenchStart
    \/ BenchCleanup
    \/ RunOriginal
    \/ RunParallel
    \/ CompareOutputs
    \/ Summary

SpecBench == InitBench /\ [][NextBench]_vars

\* ----------------------------------------------------------------- claims
\* The tree the run works in, and the fragments of the source that survive.
Tree == fs[feature_dir]
SourceText == ReadText(content)
Surviving ==
    {i \in 1..Len(SplitSequences(SourceText)) : StripTruthy(SplitSequences(SourceText)[i])}
AllWritten == \A t \in DOMAIN task : task[t] = "done"

\* text.split('\n') without the empty piece after the last newline
Lines(text) == LET p == Split(text, Newline[1]) IN SubSeq(p, 1, Len(p) - 1)

\* create_file_list has returned in this run.
ManifestBuilt ==
    \/ pc \in {"generate", "chmod", "spawn", "wait", "javac1", "javac2", "java",
               "mv", "copy", "remove", "report"}
    \/ pc = "exit" /\ failures \cap {"config", "env", "split"} = {}

\* C1: when parallel_sequence_splitting has returned (every write having
\* succeeded), the input directory holds exactly the split files seq1.fasta ..
\* seqR.fasta, R the number of surviving fragments, and R is what it returned.
C1_SplitFilesNumbered ==
    (pc = "manifest" /\ AllWritten) =>
        LET R == Cardinality(Surviving)
        IN /\ FastaFiles(Tree.input) = {SeqFileName(i) : i \in 1..R}
           /\ num_sequences = R

\* C2: parallel_sequence_splitting returns a count only when every surviving
\* fragment has been written; a failed write task makes the stage raise instead.
C2_WriteFailureRaises ==
    pc = "manifest" => AllWritten

\* C3: once create_file_list has returned, list.txt holds one name per line,
\* the names are exactly the split files this run's tasks created in the input
\* directory, in strictly ascending lexicographic order, and the copies in the
\* feature directory and in the counting tool's code directory are identical.
C3_ManifestSortedAndPublished ==
    ManifestBuilt =>
        LET list == Tree.input.files[ListName]
            lines == Lines(list)
        IN /\ list = <<>> \/ list[Len(list)] = Newline[1]
           /\ {lines[i] : i \in 1..Len(lines)} =
                 {TaskFile(t) : t \in DOMAIN task} \cap DOMAIN Tree.input.files
           /\ {lines[i] : i \in 1..Len(lines)} = FastaFiles(Tree.input)
           /\ \A i, j \in 1..Len(lines) : i < j => StrLess(lines[i], lines[j])
           /\ Tree.files["list.txt"] = list
           /\ Tree.code["list.txt"] = list

C3_Witness ==
    /\ pc = "generate"
    /\ Cardinality(FastaFiles(Tree.input)) >= 2
    /\ fs0[feature_dir] = StaleTree

\* C4: the counting stage is entered only when the Manifest Builder's count
\* equals the Splitter's count.
C4_CountsChecked ==
    kproc # "none" => num_files = num_sequences

\* C5: a collection-stage command is invoked only after the counting process
\* has exited with status 0, and while the counting process runs the
\* orchestrator is blocked waiting for it.
C5_CollectionAfterCounting ==
    /\ (collecting \/ pc \in {"javac1", "javac2", "java", "mv", "copy", "remove"})
          => kproc = "exit0"
    /\ kproc = "running" => (pc = "wait" /\ ~collecting)

C5_Witness ==
    /\ collecting
    /\ pc = "java"
    /\ kproc = "exit0"

\* C6: when the counting stage fails (chmod or spawn fails, or the process
\* exits non-zero), no collection command is ever invoked, nothing is copied to
\* data/, and the run ends with a non-zero status attributed to counting.
C6_CountingFailureAborts ==
    (kproc = "exit1" \/ "count" \in failures) =>
        /\ ~collecting
        /\ dataDir = dataDir0
        /\ \/ pc = "wait"
           \/ pc = "exit" /\ exit_status # 0 /\ "count" \in failures

C6_Witness ==
    /\ kproc = "exit1"
    /\ pc = "exit"

\* C7: after setup_directories has run, once or twice, from any workspace
\* state, the input directory exists and is empty and the output directory
\* holds exactly the empty directories 2mer, 3mer and 4mer.
C7_StagerIdempotent ==
    stager_runs >= 1 =>
        /\ Tree.exists
        /\ Tree.input = EmptyDir
        /\ Tree.output = [exists |-> TRUE, subs |-> [k \in KmerSizes |-> {}]]

C7_Witness ==
    /\ stager_runs = 2
    /\ fs0[feature_dir].input.files # EmptyFiles
    /\ {"tmp", "2mer"} \subseteq DOMAIN fs0[feature_dir].output.subs
    /\ fs0[feature_dir].output.subs["2mer"] = {"old"}

\* C8: the pipeline exits with status 0 exactly when no stage failed (the
\* closing report is not a stage).
C8_ExitStatus ==
    pc = "exit" => (exit_status = 0 <=> failures \ {"report"} = {})

\* C9: a run that ends on a missing filename option or a missing source file
\* has not modified the workspace.
C9_ErrorsBeforeWork ==
    (pc = "exit" /\ failures \cap {"config", "env"} # {}) => fs = fs0

\* C10: whenever the harness ends after the demo file was found, it has
\* started the parallel run, whatever became of the sequential run.
C10_ParallelRunStarted ==
    (bpc \in {"done", "crashed"} /\ demo_exists) => "parallel" \in attempted

\* The runs whose recorded result is a failure.
FailedRuns == {r \in DOMAIN results : ~results[r].success}

C12_SpeedupAndEfficiency ==
    summary.kind = "speedup" =>
        LET o == results["original"].time
            q == results["parallel"].time
            sp == summary.speedup
            ef == summary.efficiency
        IN /\ sp.den > 0 /\ sp.num * q = sp.den * o
           /\ ef.den > 0 /\ ef.num * (sp.den * bench_cpus) = ef.den * sp.num
           /\ o = q => (sp.num = 1 /\ sp.den = 1)
           /\ (o = 4 /\ q = 1) => (sp.num = 4 /\ sp.den = 1)

C12_Witness ==
    /\ summary.kind = "speedup"
    /\ results["original"].time = 4
    /\ results["parallel"].time = 1
    /\ bench_cpus = 3

\* Some write task has been dispatched and has not ended.
TasksRunning == \E t \in DOMAIN task : task[t] \in {"queued", "open"}

\* C13: no write task exists before setup_directories has returned, and a
\* dispatched task is unfinished only while main() is inside the pool's with
\* block: never while directories are staged, never once the splitter has
\* returned and the manifest is built.
C13_StagesOrdered ==
    /\ pc \in {"start", "copytree", "setup"} => task = <<>>
    /\ TasksRunning => (pc = "split" /\ Tree.input.exists /\ Tree.output.exists)
    /\ (pc = "manifest" \/ ManifestBuilt) =>
          \A t \in DOMAIN task : task[t] \in {"done", "failed"}

C13_Witness ==
    /\ pc = "generate"
    /\ Len(task) >= 2
    /\ fs0[feature_dir] = StaleTree

\* C14: under every interleaving and pool size the tasks' target names are
\* pairwise distinct, each split file present was opened by exactly one task
\* and holds nothing or its own record, and once all tasks have written, the
\* files and their contents are the ones the source text determines.
C14_DisjointTargets ==
    /\ \A t, u \in DOMAIN task : t # u => TaskFile(t) # TaskFile(u)
    /\ pc \in {"split", "manifest"} =>
          \A f \in FastaFiles(Tree.input) :
             /\ Cardinality({t \in DOMAIN task :
                               TaskFile(t) = f /\ task[t] # "queued"}) = 1
             /\ \E i \in Surviving :
                   /\ f = SeqFileName(i)
                   /\ Tree.input.files[f] \in
                         {<<>>, Marker \o SplitSequences(SourceText)[i]}
    /\ (pc = "manifest" /\ AllWritten) =>
          /\ FastaFiles(Tree.input) = {SeqFileName(i) : i \in Surviving}
          /\ \A i \in Surviving :
                Tree.input.files[SeqFileName(i)] = Marker \o SplitSequences(SourceText)[i]

C14_Witness ==
    /\ Len(task) >= 3
    /\ task[1] = "open"
    /\ task[2] = "queued"
    /\ task[3] = "done"

\* C15: for every job limit the command line yields, the pool is created with
\* a size of at least 1, at most 32 and at most the job limit, and the
\* splitting stage never fails on creating its pool.
C15_PoolSizeValid ==
    /\ "split" \notin failures
    /\ pc = "split" =>
          (MaxWorkers >= 1 /\ MaxWorkers <= PoolCeiling /\ MaxWorkers <= max_jobs)

\* parallel_feature_generation has returned normally in this run.
GenerationReturned ==
    \/ pc = "report"
    \/ pc = "exit" /\ collecting /\ failures \subseteq {"write", "report"}

\* C16: once parallel_feature_generation has returned normally, data/ holds
\* the collector's artifact under the requested output name, and the
\* collector's directory holds neither feature_file.csv nor a file of the
\* requested name.
C16_ArtifactRelocated ==
    GenerationReturned =>
        /\ output_filename \in DOMAIN dataDir
        /\ dataDir[output_filename] = CollectorRows(Tree)
        /\ "feature_file.csv" \notin DOMAIN Tree.files
        /\ output_filename \notin DOMAIN Tree.files

C16_Witness ==
    /\ pc = "report"
    /\ output_filename = "out.csv"
    /\ fs0[feature_dir] = StaleTree
    /\ num_files >= 2

\* C18: the working directory differs from the one main() started in only
\* while parallel_feature_generation is running; when it has returned or
\* raised, from the counting or the collection phase, the directory is the
\* original one again.
C18_WorkingDirectoryRestored ==
    /\ cwd # "root" =>
          pc \in {"chmod", "spawn", "wait", "javac1", "javac2", "java", "mv",
                  "copy", "remove"}
    /\ pc \in {"report", "exit"} => cwd = "root"

C18_Witness ==
    /\ pc = "exit"
    /\ "collect" \in failures
    /\ cwd = "root"

\* C19: once the harness has cleaned up, an artifact that exists was written
\* by its own run of this invocation, never left by an earlier one; the
\* comparison is made exactly when both artifacts exist, and then both are
\* this invocation's.
C19_ComparesOwnArtifacts ==
    /\ (demo_exists /\ bpc \notin {"idle", "start", "cleanup"}) =>
          \A a \in Runs :
             /\ artifacts[a] \in {"absent", "fresh"}
             /\ artifacts[a] = "fresh" => a \in attempted
    /\ (demo_exists /\ bpc \in {"summary", "done"}) =>
          (compared <=> \A a \in Runs : artifacts[a] # "absent")
    /\ compared => \A a \in Runs : artifacts[a] = "fresh"

C19_Witness ==
    /\ bpc = "done"
    /\ compared
    /\ \A a \in Runs : artifacts0[a] = "stale"

\* The split files' contents one after the other, by ascending ordinal.
RECURSIVE ConcatFrom(_, _, _)
ConcatFrom(files, i, last) ==
    IF i > last THEN <<>>
    ELSE (IF SeqFileName(i) \in DOMAIN files THEN files[SeqFileName(i)] ELSE <<>>)
         \o ConcatFrom(files, i + 1, last)
ConcatSplitFiles == ConcatFrom(Tree.input.files, 1, Len(content) + 1)

\* A text without its pre-marker fragment and without the fragments that are
\* empty or blank, each kept fragment behind its marker.
RECURSIVE KeptFrom(_)
KeptFrom(frags) ==
    IF frags = <<>> THEN <<>>
    ELSE (IF StripTruthy(Head(frags)) THEN Marker \o Head(frags) ELSE <<>>)
         \o KeptFrom(Tail(frags))
Kept(text) == KeptFrom(Tail(Split(text, Marker[1])))

SetupDone == pc \notin {"start", "copytree", "setup"} /\ "config" \notin failures
RunRecords == {SeqFileName(i) : i \in Surviving}
Listed(list) == LET lines == Lines(list) IN {lines[i] : i \in 1..Len(lines)}
ListedIn(files) == IF "list.txt" \in DOMAIN files THEN Listed(files["list.txt"]) ELSE {}

====
